---- MODULE Spec2Model ----
(***************************************************************************)
(* Model of the polynomial-basis and projection core of HArDCore3D:        *)
(*   - the exponent enumeration of MonomialScalarBasisCell / Face          *)
(*     (src/src/Common/basis.cpp),                                         *)
(*   - the compute_gram_matrix overloads (src/src/Common/basis.cpp),       *)
(*   - HybridCore::interpolate (src/src/HybridCore/hybridcore.hpp).        *)
(* One function runs per behaviour; `op` says which one.  Real numbers are *)
(* exact (integers, and rationals where the code divides or solves).       *)
(***************************************************************************)
EXTENDS Integers, Sequences, FiniteSets, TLC

VARIABLES
  op,        \* the function being executed
  pc,        \* position inside that function
  m_degree,  \* MonomialScalarBasis*::m_degree
  m_powers,  \* MonomialScalarBasis*::m_powers (0-based in the code, 1-based here)
  l, i, j, k, \* loop counters of the running function
  B1, B2,    \* compute_gram_matrix: sampled families, B[i+1][iqn+1]
  qr,        \* compute_gram_matrix: quadrature weights qr[iqn].w
  nrows, ncols, sym,  \* compute_gram_matrix: remaining arguments
  jcut,      \* compute_gram_matrix: first column computed in the current row
  M,         \* compute_gram_matrix: the matrix under construction
  accessed,  \* compute_gram_matrix: the uses of M(r, c) made so far by the call
  mesh,      \* HybridCore: n_cells, n_faces and the global face indices of each cell
  K, L,      \* HybridCore: face and cell polynomial degrees (L may be -1)
  basisScale,   \* HybridCore: value of the degree-0 cell / face monomial factor
  weightsMode,  \* HybridCore: which weights compute_weights returns
  f, doe,    \* interpolate: the function (c0 + cx*x) and the degree of exactness
  XTF,       \* interpolate: the vector of coefficients, indexed from 0
  iF, iT,    \* interpolate: loop counters
  failed,    \* interpolate: entities whose mass matrix was not positive-definite
  lastWrite, \* interpolate: entity and indices of XTF assigned by the last step
  writtenXTF,   \* interpolate: indices of XTF assigned so far
  readXTF,   \* interpolate: indices of the face values read so far by the L = -1 branch
  m_x, m_h,  \* MonomialScalarBasis*: centre of mass and diameter of the entity
  m_jacobian,   \* MonomialScalarBasisFace::m_jacobian
  m_tE,      \* MonomialScalarBasisEdge::m_tE
  point,     \* function / gradient: the argument x
  grad,      \* gradient: the local derivative before scaling or lifting
  result,    \* function / gradient: the value returned
  powArgs,   \* function / gradient: the exponents handed to std::pow by the call
  quadRule,  \* quadrature_over_*: the rule quadT / quadF generated for the entity
  iqn,       \* quadrature_over_*: loop counter
  calls,     \* quadrature_over_*: the evaluator calls made so far by the running call
  ans,       \* integrate_over_cell / face: the accumulator
  value      \* integrate_over_domain: the accumulator

basisVars == <<m_degree, m_powers, l>>

gramArgs == <<B1, B2, qr, sym>>

gramVars == <<B1, B2, qr, nrows, ncols, sym, jcut, M, k, accessed>>

hybridCore == <<mesh, K, L, basisScale, weightsMode>>

interpVars == <<mesh, K, L, basisScale, weightsMode, f, doe,
                XTF, iF, iT, failed, lastWrite, writtenXTF, readXTF>>

entityVars == <<m_x, m_h, m_jacobian, m_tE>>

evalVars == <<m_x, m_h, m_jacobian, m_tE, point, grad, result, powArgs>>

quadVars == <<quadRule, iqn, calls, ans, value>>

interpLocals == <<basisScale, weightsMode, doe, XTF, failed, lastWrite, writtenXTF, readXTF>>

vars == <<op, pc, m_degree, m_powers, l, i, j, k,
          B1, B2, qr, nrows, ncols, sym, jcut, M, accessed,
          mesh, K, L, basisScale, weightsMode, f, doe,
          XTF, iF, iT, failed, lastWrite, writtenXTF, readXTF,
          m_x, m_h, m_jacobian, m_tE, point, grad, result, powArgs,
          quadRule, iqn, calls, ans, value>>

(***************************************************************************)
(* Bounds                                                                  *)
(***************************************************************************)
MaxDegree == 4
MaxFam == 2      \* members in a sampled family
MaxNodes == 2    \* nodes in a quadrature rule
MaxFun == 1      \* largest index of the functions a family is drawn from
MaxCells == 2    \* cells of the mesh
MaxFaces == 3    \* faces of the mesh
MaxK == 1        \* face degree
MaxL == 1        \* cell degree
MaxDoe == 1      \* degree of exactness asked of interpolate
MaxEvalDegree == 2   \* degree of the bases that are evaluated
MaxCoord == 1    \* largest coordinate of an evaluation point

(***************************************************************************)
(* Program constants                                                       *)
(***************************************************************************)
dimspace == 3

(***************************************************************************)
(* State of the functions that are not running                             *)
(***************************************************************************)
NoMatrix == [rows |-> 0, cols |-> 0, val |-> <<>>]

BasisIdle ==
  /\ m_degree = 0
  /\ m_powers = <<>>
  /\ l = 0

GramIdle ==
  /\ B1 = <<>>
  /\ B2 = <<>>
  /\ qr = <<>>
  /\ nrows = 0
  /\ ncols = 0
  /\ sym = "nonsym"
  /\ jcut = 0
  /\ k = 0
  /\ M = NoMatrix
  /\ accessed = {}

NoWrite == [entity |-> <<"none", 0>>, idx |-> {}]

InterpIdle ==
  /\ mesh = [n_cells |-> 0, n_faces |-> 0, faces |-> <<>>]
  /\ K = 0
  /\ L = 0
  /\ basisScale = [cell |-> 1, face |-> 1]
  /\ weightsMode = "normalised"
  /\ f = [c0 |-> 0, cx |-> 0]
  /\ doe = 0
  /\ XTF = <<>>
  /\ iF = 0
  /\ iT = 0
  /\ failed = {}
  /\ lastWrite = NoWrite
  /\ writtenXTF = {}
  /\ readXTF = {}

QuadIdle ==
  /\ quadRule = <<>>
  /\ iqn = 0
  /\ calls = <<>>
  /\ ans = 0
  /\ value = 0

EvalIdle ==
  /\ m_x = <<0, 0, 0>>
  /\ m_h = 1
  /\ m_jacobian = <<>>
  /\ m_tE = <<>>
  /\ point = <<0, 0, 0>>
  /\ grad = <<>>
  /\ result = <<>>
  /\ powArgs = {}

(***************************************************************************)
(* Monomial bases: exponent enumeration                                    *)
(***************************************************************************)
Degrees == 0..MaxDegree

InitBasis ==
  /\ op \in {"MonomialScalarBasisCell", "MonomialScalarBasisFace"}
  /\ pc = "for_l"
  /\ m_degree \in Degrees
  /\ m_powers = <<>>
  /\ l = 0
  /\ i = 0
  /\ j = 0
  /\ GramIdle
  /\ InterpIdle
  /\ EvalIdle
  /\ QuadIdle

\* CellPowers with the last two exponents exchanged
CellPowers_swapped(li, ii, ji) == <<ii, li - ii - ji, ji>>

\* basis.cpp:22  VectorZd(i, j, l-i-j)
CellPowers(li, ii, ji) == <<ii, ji, li - ii - ji>>

\* FacePowers with the two exponents exchanged
FacePowers_swapped(li, ii) == <<li - ii, ii>>

\* basis.cpp:65  Eigen::Vector2i(i, l-i)
FacePowers(li, ii) == <<ii, li - ii>>

\* basis.cpp:19  for (size_t l = 0; l <= m_degree; l++)
CellForL ==
  /\ op = "MonomialScalarBasisCell"
  /\ pc = "for_l"
  /\ IF l <= m_degree
       THEN /\ pc' = "for_i"
            /\ i' = 0
       ELSE /\ pc' = "done"
            /\ i' = i
  /\ UNCHANGED <<op, m_degree, m_powers, l, j, gramVars, interpVars, evalVars, quadVars>>

\* basis.cpp:20  for (size_t i = 0; i <= l; i++)
CellForI ==
  /\ op = "MonomialScalarBasisCell"
  /\ pc = "for_i"
  /\ IF i <= l
       THEN /\ pc' = "for_j"
            /\ j' = 0
            /\ l' = l
       ELSE /\ pc' = "for_l"
            /\ l' = l + 1
            /\ j' = j
  /\ UNCHANGED <<op, m_degree, m_powers, i, gramVars, interpVars, evalVars, quadVars>>

\* CellForJ with the inner bound written i + j < l
CellForJ_strict ==
  /\ op = "MonomialScalarBasisCell"
  /\ pc = "for_j"
  /\ IF i + j < l
       THEN /\ m_powers' = Append(m_powers, CellPowers(l, i, j))
            /\ j' = j + 1
            /\ pc' = pc
            /\ i' = i
       ELSE /\ pc' = "for_i"
            /\ i' = i + 1
            /\ UNCHANGED <<m_powers, j>>
  /\ UNCHANGED <<op, m_degree, l, gramVars, interpVars, evalVars, quadVars>>

\* basis.cpp:21-23  for (size_t j = 0; i + j <= l; j++) m_powers.push_back(...)
CellForJ ==
  /\ op = "MonomialScalarBasisCell"
  /\ pc = "for_j"
  /\ IF i + j <= l
       THEN /\ m_powers' = Append(m_powers, CellPowers(l, i, j))
            /\ j' = j + 1
            /\ pc' = pc
            /\ i' = i
       ELSE /\ pc' = "for_i"
            /\ i' = i + 1
            /\ UNCHANGED <<m_powers, j>>
  /\ UNCHANGED <<op, m_degree, l, gramVars, interpVars, evalVars, quadVars>>

\* basis.cpp:63  for (size_t l = 0; l <= m_degree; l++)
FaceForL ==
  /\ op = "MonomialScalarBasisFace"
  /\ pc = "for_l"
  /\ IF l <= m_degree
       THEN /\ pc' = "for_i"
            /\ i' = 0
       ELSE /\ pc' = "done"
            /\ i' = i
  /\ UNCHANGED <<op, m_degree, m_powers, l, j, gramVars, interpVars, evalVars, quadVars>>

\* FaceForI with the bound written i < l
FaceForI_strict ==
  /\ op = "MonomialScalarBasisFace"
  /\ pc = "for_i"
  /\ IF i < l
       THEN /\ m_powers' = Append(m_powers, FacePowers(l, i))
            /\ i' = i + 1
            /\ pc' = pc
            /\ l' = l
       ELSE /\ pc' = "for_l"
            /\ l' = l + 1
            /\ UNCHANGED <<m_powers, i>>
  /\ UNCHANGED <<op, m_degree, j, gramVars, interpVars, evalVars, quadVars>>

\* basis.cpp:64-66  for (size_t i = 0; i <= l; i++) m_powers.push_back(...)
FaceForI ==
  /\ op = "MonomialScalarBasisFace"
  /\ pc = "for_i"
  /\ IF i <= l
       THEN /\ m_powers' = Append(m_powers, FacePowers(l, i))
            /\ i' = i + 1
            /\ pc' = pc
            /\ l' = l
       ELSE /\ pc' = "for_l"
            /\ l' = l + 1
            /\ UNCHANGED <<m_powers, i>>
  /\ UNCHANGED <<op, m_degree, j, gramVars, interpVars, evalVars, quadVars>>

NextBasis ==
  \/ CellForL
  \/ CellForI
  \/ CellForJ
  \/ FaceForL
  \/ FaceForI

SpecBasis == InitBasis /\ [][NextBasis]_vars

(***************************************************************************)
(* Properties of the exponent enumeration                                  *)
(***************************************************************************)
CellDone == op = "MonomialScalarBasisCell" /\ pc = "done"
FaceDone == op = "MonomialScalarBasisFace" /\ pc = "done"

\* C8: for every degree m >= 0 the finished cell constructor holds exactly
\* (m+1)(m+2)(m+3)/6 exponent tuples.
CellMonomialCount ==
  CellDone =>
    Len(m_powers) * 6 = (m_degree + 1) * (m_degree + 2) * (m_degree + 3)

CellMonomialCountWitness ==
  CellDone /\ m_degree = 3 /\ Len(m_powers) = 20

\* Order of emission: total degree, then first exponent, then second exponent.
CellBefore(a, b) ==
  LET la == a[1] + a[2] + a[3]
      lb == b[1] + b[2] + b[3]
  IN  \/ la < lb
      \/ la = lb /\ a[1] < b[1]
      \/ la = lb /\ a[1] = b[1] /\ a[2] < b[2]

AllCellTuples(m) ==
  {t \in (0..m) \X (0..m) \X (0..m) : t[1] + t[2] + t[3] <= m}

\* C9: the cell tuples are emitted by ascending total degree l, then ascending
\* first exponent i, then ascending second exponent j, each being (i, j, l-i-j);
\* every tuple of total degree <= m is emitted; for m = 1 the sequence is
\* (0,0,0), (0,0,1), (0,1,0), (1,0,0).
CellEnumerationOrder ==
  op = "MonomialScalarBasisCell" =>
    /\ \A p, q \in 1..Len(m_powers) :
         p < q => CellBefore(m_powers[p], m_powers[q])
    /\ pc = "done" =>
         {m_powers[p] : p \in 1..Len(m_powers)} = AllCellTuples(m_degree)
    /\ (pc = "done" /\ m_degree = 1) =>
         m_powers = << <<0, 0, 0>>, <<0, 0, 1>>, <<0, 1, 0>>, <<1, 0, 0>> >>

CellEnumerationOrderWitness ==
  /\ CellDone
  /\ m_degree = 2
  /\ m_powers[5] = <<0, 0, 2>>
  /\ m_powers[6] = <<0, 1, 1>>
  /\ m_powers[10] = <<2, 0, 0>>

\* C10: for every degree m >= 0 the finished face constructor holds exactly
\* (m+1)(m+2)/2 exponent tuples.
FaceMonomialCount ==
  FaceDone => Len(m_powers) * 2 = (m_degree + 1) * (m_degree + 2)

FaceMonomialCountWitness ==
  FaceDone /\ m_degree = 3 /\ Len(m_powers) = 10

\* Order of emission on a face: total degree, then first exponent.
FaceBefore(a, b) ==
  \/ a[1] + a[2] < b[1] + b[2]
  \/ a[1] + a[2] = b[1] + b[2] /\ a[1] < b[1]

AllFaceTuples(m) == {t \in (0..m) \X (0..m) : t[1] + t[2] <= m}

\* C11: the face tuples are emitted by ascending total degree l and, within one
\* l, ascending first exponent i, each being (i, l-i) and emitted once; every
\* tuple of total degree <= m is emitted; for m = 1 the sequence is
\* (0,0), (0,1), (1,0).
FaceEnumerationOrder ==
  op = "MonomialScalarBasisFace" =>
    /\ \A p, q \in 1..Len(m_powers) :
         p < q => FaceBefore(m_powers[p], m_powers[q])
    /\ pc = "done" =>
         {m_powers[p] : p \in 1..Len(m_powers)} = AllFaceTuples(m_degree)
    /\ (pc = "done" /\ m_degree = 1) =>
         m_powers = << <<0, 0>>, <<0, 1>>, <<1, 0>> >>

FaceEnumerationOrderWitness ==
  /\ FaceDone
  /\ m_degree = 2
  /\ m_powers[4] = <<0, 2>>
  /\ m_powers[5] = <<1, 1>>
  /\ m_powers[6] = <<2, 0>>

(***************************************************************************)
(* Gram matrices: inputs                                                   *)
(***************************************************************************)
\* A family member is function number a sampled at node number node (abscissa node+2).
RECURSIVE Pow(_, _)
Pow(x, n) == IF n = 0 THEN 1 ELSE x * Pow(x, n - 1)

SampleScalar(a, node) == Pow(node + 2, a)

SampleVector(a, node) == <<Pow(node + 2, a), a + 1, node + 1 - a>>

FunIds == 0..MaxFun

FamilyIds == UNION {[1..n -> FunIds] : n \in 1..MaxFam}

\* boost::multi_array<double, 2> of shape [Len(ids)][nq]
ScalarFamily(ids, nq) ==
  [a \in 1..Len(ids) |-> [q \in 1..nq |-> SampleScalar(ids[a], q - 1)]]

\* boost::multi_array<VectorRd, 2> of shape [Len(ids)][nq]
VectorFamily(ids, nq) ==
  [a \in 1..Len(ids) |-> [q \in 1..nq |-> SampleVector(ids[a], q - 1)]]

ScalarFamilies == {ScalarFamily(ids, nq) : ids \in FamilyIds, nq \in 1..MaxNodes}

VectorFamilies == {VectorFamily(ids, nq) : ids \in FamilyIds, nq \in 1..MaxNodes}

QuadWeights == {1, 2}

QuadratureRules == UNION {[1..n -> QuadWeights] : n \in 1..MaxNodes}

SymFlags == {"sym", "nonsym"}

ScalarOps == {"compute_gram_matrix_scalar", "compute_gram_matrix_scalar_full"}
VectorOps == {"compute_gram_matrix_vector", "compute_gram_matrix_vector_full"}
FullOps == {"compute_gram_matrix_scalar_full", "compute_gram_matrix_vector_full"}
MixedOp == "compute_gram_matrix_vector_scalar"
GramOps == ScalarOps \cup VectorOps \cup {MixedOp}

\* B.shape()[0] and B.shape()[1]
Shape0(B) == Len(B)
Shape1(B) == Len(B[1])

InitGram ==
  /\ op \in GramOps
  /\ B1 \in (IF op \in ScalarOps THEN ScalarFamilies ELSE VectorFamilies)
  /\ B2 \in (IF op \in VectorOps THEN VectorFamilies ELSE ScalarFamilies)
  /\ qr \in QuadratureRules
  /\ sym \in (IF op = MixedOp THEN {"nonsym"} ELSE SymFlags)
  /\ nrows \in (IF op \in FullOps \cup {MixedOp} THEN {0} ELSE 0..(MaxFam + 1))
  /\ ncols \in (IF op \in FullOps \cup {MixedOp} THEN {0} ELSE 0..(MaxFam + 1))
  /\ pc = (IF op \in FullOps THEN "call" ELSE "assert_qr")
  /\ jcut = 0
  /\ M = NoMatrix
  /\ accessed = {}
  /\ i = 0
  /\ j = 0
  /\ k = 0
  /\ BasisIdle
  /\ InterpIdle
  /\ EvalIdle
  /\ QuadIdle

(***************************************************************************)
(* Gram matrices: arithmetic                                               *)
(***************************************************************************)
RECURSIVE SumSeq(_)
SumSeq(s) == IF s = <<>> THEN 0 ELSE Head(s) + SumSeq(Tail(s))

\* basis.cpp:119-125  scalar_product
scalar_product(x, y) == x * y

dot(x, y) == x[1] * y[1] + x[2] * y[2] + x[3] * y[3]

\* basis.cpp:167-168  ek = VectorRd::Zero(); ek(k) = 1.
UnitVector(kk) == [c \in 1..dimspace |-> IF c = kk + 1 THEN 1 ELSE 0]

\* ScalarEntry without the quadrature weights
ScalarEntry_unweighted(ii, jj) ==
  SumSeq([q \in 1..Shape1(B1) |-> scalar_product(B1[ii + 1][q], B2[jj + 1][q])])

\* basis.cpp:217  (qr_weights * B1i_as_array * B2j_as_array).sum()
ScalarEntry(ii, jj) ==
  SumSeq([q \in 1..Shape1(B1) |->
            qr[q] * scalar_product(B1[ii + 1][q], B2[jj + 1][q])])

\* basis.cpp:263-269  (qr_weights * B1i_dot_B2j).sum()
VectorEntry(ii, jj) ==
  SumSeq([q \in 1..Len(qr) |-> qr[q] * dot(B1[ii + 1][q], B2[jj + 1][q])])

\* MixedEntry always taking the first axis
MixedEntry_firstAxis(ii, kk, jj) ==
  SumSeq([q \in 1..Len(qr) |->
            qr[q] * dot(B1[ii + 1][q], UnitVector(0)) * B2[jj + 1][q]])

\* basis.cpp:170-172  the iqn loop accumulating into M(i, k * B2.shape()[0] + j)
MixedEntry(ii, kk, jj) ==
  SumSeq([q \in 1..Len(qr) |->
            qr[q] * dot(B1[ii + 1][q], UnitVector(kk)) * B2[jj + 1][q]])

GramEntry(ii, jj) ==
  IF op \in ScalarOps THEN ScalarEntry(ii, jj) ELSE VectorEntry(ii, jj)

\* Eigen::MatrixXd::Zero(r, c)
Zero(r, c) ==
  [rows |-> r, cols |-> c,
   val |-> [e \in (0..(r - 1)) \X (0..(c - 1)) |-> 0]]

InBounds(A, r, c) == r < A.rows /\ c < A.cols

Put(A, r, c, v) == [A EXCEPT !.val = [@ EXCEPT ![<<r, c>>] = v]]

\* M(r, c) used as an lvalue; how says which loop assigns it
Write(how, r, c) == [kind |-> how, row |-> r, col |-> c, ready |-> TRUE]

\* M(r, c) used as an rvalue; ready says whether M(r, c) was computed before
Read(r, c) ==
  [kind |-> "read", row |-> r, col |-> c,
   ready |-> \E w \in accessed : w.kind = "compute" /\ w.row = r /\ w.col = c]

\* What a read outside the storage of M may yield.
Garbage == {0, -1}

(***************************************************************************)
(* Gram matrices: the overloads taking nrows, ncols and sym                *)
(***************************************************************************)
\* basis.cpp:224-231, 276-283  the complete-family overloads
GramFullCall ==
  /\ op \in FullOps
  /\ pc = "call"
  /\ nrows' = Shape0(B1)
  /\ ncols' = Shape0(B2)
  /\ pc' = "assert_qr"
  /\ UNCHANGED <<op, gramArgs, jcut, M, i, j, k, accessed, basisVars, interpVars, evalVars, quadVars>>

\* basis.cpp:162, 189, 244
\*   assert ( qr.size() == B1.shape()[1] && qr.size() == B2.shape()[1] )
GramAssertQr ==
  /\ op \in GramOps
  /\ pc = "assert_qr"
  /\ IF Len(qr) = Shape1(B1) /\ Len(qr) = Shape1(B2)
       THEN pc' = (IF op = MixedOp THEN "mixed_alloc" ELSE "assert_family")
       ELSE pc' = "aborted"
  /\ UNCHANGED <<op, gramArgs, nrows, ncols, jcut, M, i, j, k, accessed, basisVars, interpVars, evalVars, quadVars>>

\* GramAssertFamily checking the row count only
GramAssertFamily_rowsOnly ==
  /\ op \in ScalarOps \cup VectorOps
  /\ pc = "assert_family"
  /\ IF nrows <= Shape0(B1)
       THEN /\ M' = Zero(nrows, ncols)
            /\ i' = 0
            /\ pc' = "for_i"
       ELSE /\ pc' = "aborted"
            /\ UNCHANGED <<M, i>>
  /\ UNCHANGED <<op, gramArgs, nrows, ncols, jcut, j, k, accessed, basisVars, interpVars, evalVars, quadVars>>

\* basis.cpp:191, 246
\*   assert ( nrows <= B1.shape()[0] && ncols <= B2.shape()[0] )
\* basis.cpp:199, 254  M = Eigen::MatrixXd::Zero(nrows, ncols)
GramAssertFamily ==
  /\ op \in ScalarOps \cup VectorOps
  /\ pc = "assert_family"
  /\ IF nrows <= Shape0(B1) /\ ncols <= Shape0(B2)
       THEN /\ M' = Zero(nrows, ncols)
            /\ i' = 0
            /\ pc' = "for_i"
       ELSE /\ pc' = "aborted"
            /\ UNCHANGED <<M, i>>
  /\ UNCHANGED <<op, gramArgs, nrows, ncols, jcut, j, k, accessed, basisVars, interpVars, evalVars, quadVars>>

\* GramForI that never moves jcut
GramForI_noCut ==
  /\ op \in ScalarOps \cup VectorOps
  /\ pc = "for_i"
  /\ IF i < nrows
       THEN /\ jcut' = 0
            /\ j' = 0
            /\ pc' = "copy"
       ELSE /\ pc' = "done"
            /\ UNCHANGED <<jcut, j>>
  /\ UNCHANGED <<op, gramArgs, nrows, ncols, M, i, k, accessed, basisVars, interpVars, evalVars, quadVars>>

\* basis.cpp:200-202, 255-257
\*   for (i = 0; i < nrows; i++) { jcut = 0; if ( sym=="sym" ) jcut = i;
GramForI ==
  /\ op \in ScalarOps \cup VectorOps
  /\ pc = "for_i"
  /\ IF i < nrows
       THEN /\ jcut' = (IF sym = "sym" THEN i ELSE 0)
            /\ j' = 0
            /\ pc' = "copy"
       ELSE /\ pc' = "done"
            /\ UNCHANGED <<jcut, j>>
  /\ UNCHANGED <<op, gramArgs, nrows, ncols, M, i, k, accessed, basisVars, interpVars, evalVars, quadVars>>

\* GramCopy assigning M(i, j) to itself
GramCopy_noTranspose ==
  /\ op \in ScalarOps \cup VectorOps
  /\ pc = "copy"
  /\ \/ /\ j < jcut
        /\ InBounds(M, j, i)
        /\ InBounds(M, i, j)
        /\ M' = Put(M, i, j, M.val[<<i, j>>])
        /\ accessed' = accessed \cup {Read(j, i), Write("copy", i, j)}
        /\ j' = j + 1
        /\ pc' = pc
     \/ /\ j < jcut
        /\ ~(InBounds(M, j, i) /\ InBounds(M, i, j))
        /\ pc' = "aborted"
        /\ accessed' = accessed \cup (IF InBounds(M, j, i)
                                       THEN {Read(j, i), Write("copy", i, j)}
                                       ELSE {Read(j, i)})
        /\ UNCHANGED <<M, j>>
     \/ /\ j < jcut
        /\ ~(InBounds(M, j, i) /\ InBounds(M, i, j))
        /\ \E g \in Garbage :
             M' = IF InBounds(M, i, j)
                    THEN Put(M, i, j, IF InBounds(M, j, i)
                                        THEN M.val[<<j, i>>] ELSE g)
                    ELSE M
        /\ accessed' = accessed \cup {Read(j, i), Write("copy", i, j)}
        /\ j' = j + 1
        /\ pc' = pc
     \/ /\ ~(j < jcut)
        /\ pc' = "compute"
        /\ UNCHANGED <<M, j, accessed>>
  /\ UNCHANGED <<op, gramArgs, nrows, ncols, jcut, i, k, basisVars, interpVars, evalVars, quadVars>>

\* basis.cpp:203-205, 258-260
\*   for (j = 0; j < jcut; j++) M(i, j) = M(j, i);
\* An index outside M is undefined behaviour: Eigen's index assertion aborts,
\* or the access goes through and the value read is arbitrary.
GramCopy ==
  /\ op \in ScalarOps \cup VectorOps
  /\ pc = "copy"
  /\ \/ /\ j < jcut
        /\ InBounds(M, j, i)
        /\ InBounds(M, i, j)
        /\ M' = Put(M, i, j, M.val[<<j, i>>])
        /\ accessed' = accessed \cup {Read(j, i), Write("copy", i, j)}
        /\ j' = j + 1
        /\ pc' = pc
     \/ /\ j < jcut
        /\ ~(InBounds(M, j, i) /\ InBounds(M, i, j))
        /\ pc' = "aborted"
        /\ accessed' = accessed \cup (IF InBounds(M, j, i)
                                       THEN {Read(j, i), Write("copy", i, j)}
                                       ELSE {Read(j, i)})
        /\ UNCHANGED <<M, j>>
     \/ /\ j < jcut
        /\ ~(InBounds(M, j, i) /\ InBounds(M, i, j))
        /\ \E g \in Garbage :
             M' = IF InBounds(M, i, j)
                    THEN Put(M, i, j, IF InBounds(M, j, i)
                                        THEN M.val[<<j, i>>] ELSE g)
                    ELSE M
        /\ accessed' = accessed \cup {Read(j, i), Write("copy", i, j)}
        /\ j' = j + 1
        /\ pc' = pc
     \/ /\ ~(j < jcut)
        /\ pc' = "compute"
        /\ UNCHANGED <<M, j, accessed>>
  /\ UNCHANGED <<op, gramArgs, nrows, ncols, jcut, i, k, basisVars, interpVars, evalVars, quadVars>>

\* basis.cpp:206-218, 261-270
\*   for (j = jcut; j < ncols; j++) M(i,j) = (weights * B1i * B2j).sum();
GramCompute ==
  /\ op \in ScalarOps \cup VectorOps
  /\ pc = "compute"
  /\ IF j < ncols
       THEN /\ M' = Put(M, i, j, GramEntry(i, j))
            /\ accessed' = accessed \cup {Write("compute", i, j)}
            /\ j' = j + 1
            /\ pc' = pc
            /\ i' = i
       ELSE /\ i' = i + 1
            /\ pc' = "for_i"
            /\ UNCHANGED <<M, j, accessed>>
  /\ UNCHANGED <<op, gramArgs, nrows, ncols, jcut, k, basisVars, interpVars, evalVars, quadVars>>

(***************************************************************************)
(* Gram matrices: vector-valued B1 against tensorialised scalar B2         *)
(***************************************************************************)
\* basis.cpp:164  M = Zero(B1.shape()[0], dimspace * B2.shape()[0])
MixedAlloc ==
  /\ op = MixedOp
  /\ pc = "mixed_alloc"
  /\ M' = Zero(Shape0(B1), dimspace * Shape0(B2))
  /\ i' = 0
  /\ pc' = "mixed_for_i"
  /\ UNCHANGED <<op, gramArgs, nrows, ncols, jcut, j, k, accessed, basisVars, interpVars, evalVars, quadVars>>

\* basis.cpp:165  for (i = 0; i < B1.shape()[0]; i++)
MixedForI ==
  /\ op = MixedOp
  /\ pc = "mixed_for_i"
  /\ IF i < Shape0(B1)
       THEN /\ k' = 0
            /\ pc' = "mixed_for_k"
       ELSE /\ pc' = "done"
            /\ k' = k
  /\ UNCHANGED <<op, gramArgs, nrows, ncols, jcut, M, i, j, accessed, basisVars, interpVars, evalVars, quadVars>>

\* basis.cpp:166  for (k = 0; k < dimspace; k++)
MixedForK ==
  /\ op = MixedOp
  /\ pc = "mixed_for_k"
  /\ IF k < dimspace
       THEN /\ j' = 0
            /\ pc' = "mixed_for_j"
            /\ i' = i
       ELSE /\ i' = i + 1
            /\ pc' = "mixed_for_i"
            /\ j' = j
  /\ UNCHANGED <<op, gramArgs, nrows, ncols, jcut, M, k, accessed, basisVars, interpVars, evalVars, quadVars>>

\* basis.cpp:169-173  for (j ...) for (iqn ...) M(i, k*B2.shape()[0]+j) += ...
MixedForJ ==
  /\ op = MixedOp
  /\ pc = "mixed_for_j"
  /\ IF j < Shape0(B2)
       THEN /\ M' = Put(M, i, k * Shape0(B2) + j,
                        M.val[<<i, k * Shape0(B2) + j>>] + MixedEntry(i, k, j))
            /\ accessed' = accessed \cup {Write("compute", i, k * Shape0(B2) + j)}
            /\ j' = j + 1
            /\ pc' = pc
            /\ k' = k
       ELSE /\ k' = k + 1
            /\ pc' = "mixed_for_k"
            /\ UNCHANGED <<M, j, accessed>>
  /\ UNCHANGED <<op, gramArgs, nrows, ncols, jcut, i, basisVars, interpVars, evalVars, quadVars>>

NextGram ==
  \/ GramFullCall
  \/ GramAssertQr
  \/ GramAssertFamily
  \/ GramForI
  \/ GramCopy
  \/ GramCompute
  \/ MixedAlloc
  \/ MixedForI
  \/ MixedForK
  \/ MixedForJ

SpecGram == InitGram /\ [][NextGram]_vars

(***************************************************************************)
(* Properties of the Gram matrices                                         *)
(***************************************************************************)
GramDone == op \in GramOps /\ pc = "done"

QrCoherent == Len(qr) = Shape1(B1) /\ Len(qr) = Shape1(B2)

\* sum over the first n quadrature nodes of weight * x * y
RECURSIVE QuadSum(_, _, _)
QuadSum(x, y, n) ==
  IF n = 0 THEN 0 ELSE QuadSum(x, y, n - 1) + qr[n] * x[n] * y[n]

\* sum over the first n quadrature nodes of weight * (x . y)
RECURSIVE QuadDotSum(_, _, _)
QuadDotSum(x, y, n) ==
  IF n = 0 THEN 0
  ELSE QuadDotSum(x, y, n - 1)
         + qr[n] * (x[n][1] * y[n][1] + x[n][2] * y[n][2] + x[n][3] * y[n][3])

InnerProduct(ii, jj) ==
  IF op \in ScalarOps
    THEN QuadSum(B1[ii + 1], B2[jj + 1], Len(qr))
    ELSE QuadDotSum(B1[ii + 1], B2[jj + 1], Len(qr))

\* C1: for scalar families, a coherent quadrature rule, nrows <= |B1|,
\* ncols <= |B2| and sym not requested, the returned matrix has exactly nrows
\* rows and ncols columns and entry (i,j) is the sum over the nodes of
\* weight * B1[i] * B2[j]; the full-family overload is nrows = |B1|, ncols = |B2|.
ScalarGramEntries ==
  (GramDone /\ op \in ScalarOps /\ sym # "sym") =>
    /\ QrCoherent
    /\ nrows <= Shape0(B1)
    /\ ncols <= Shape0(B2)
    /\ op \in FullOps => (nrows = Shape0(B1) /\ ncols = Shape0(B2))
    /\ M.rows = nrows
    /\ M.cols = ncols
    /\ DOMAIN M.val = (0..(nrows - 1)) \X (0..(ncols - 1))
    /\ \A r \in 0..(nrows - 1), c \in 0..(ncols - 1) :
         M.val[<<r, c>>] = QuadSum(B1[r + 1], B2[c + 1], Len(qr))

ScalarGramEntriesWitness ==
  /\ GramDone
  /\ op = "compute_gram_matrix_scalar"
  /\ sym = "nonsym"
  /\ Len(qr) = 2
  /\ qr[1] # qr[2]
  /\ nrows = 2
  /\ ncols = 1
  /\ Shape0(B2) = 2
  /\ M.val[<<0, 0>>] # M.val[<<1, 0>>]

\* C2: with sym = "sym" and nrows = ncols the returned matrix is exactly
\* symmetric whatever the two families are: an entry with j >= i is the weighted
\* inner product of B1[i] and B2[j], an entry with j < i is a copy of M(j,i).
SymModeSymmetric ==
  (GramDone /\ op \in ScalarOps \cup VectorOps /\ sym = "sym" /\ nrows = ncols) =>
    \A r \in 0..(nrows - 1), c \in 0..(ncols - 1) :
      /\ M.val[<<r, c>>] = M.val[<<c, r>>]
      /\ c >= r => M.val[<<r, c>>] = InnerProduct(r, c)
      /\ c < r => M.val[<<r, c>>] = InnerProduct(c, r)

\* two different families whose true inner-product matrix is not symmetric
SymModeSymmetricWitness ==
  /\ GramDone
  /\ op \in ScalarOps \cup VectorOps
  /\ sym = "sym"
  /\ nrows = 2
  /\ ncols = 2
  /\ B1 # B2
  /\ InnerProduct(1, 0) # InnerProduct(0, 1)
  /\ M.val[<<1, 0>>] = InnerProduct(0, 1)

FamilyExceeded ==
  /\ op \in (ScalarOps \cup VectorOps) \ FullOps
  /\ nrows > Shape0(B1) \/ ncols > Shape0(B2)

\* C6: every overload stops at its assertion, without building a matrix, when
\* the node count of the rule differs from that of either family; the overloads
\* taking nrows and ncols also stop there when nrows > |B1| or ncols > |B2|,
\* and never go on with a truncated or padded request.
GramPreconditionsAbort ==
  op \in GramOps =>
    /\ ~QrCoherent =>
         (pc \in {"call", "assert_qr", "aborted"} /\ M = NoMatrix)
    /\ FamilyExceeded =>
         (pc \in {"assert_qr", "assert_family", "aborted"} /\ M = NoMatrix)

GramPreconditionsAbortWitness ==
  /\ op = "compute_gram_matrix_vector"
  /\ pc = "aborted"
  /\ QrCoherent
  /\ nrows <= Shape0(B1)
  /\ ncols > Shape0(B2)
  /\ M = NoMatrix

\* sum over the first n quadrature nodes of weight * (component c of x) * y
RECURSIVE QuadAxisSum(_, _, _, _)
QuadAxisSum(x, c, y, n) ==
  IF n = 0 THEN 0 ELSE QuadAxisSum(x, c, y, n - 1) + qr[n] * x[n][c] * y[n]

\* C13: the vector-times-scalar overload returns a matrix with |B1| rows and
\* dimspace * |B2| columns, one block of |B2| columns per axis: entry
\* (i, k*|B2| + j) is the sum over the nodes of weight * (k-th component of
\* B1[i]) * B2[j].
MixedGramLayout ==
  (GramDone /\ op = MixedOp) =>
    /\ M.rows = Shape0(B1)
    /\ M.cols = dimspace * Shape0(B2)
    /\ DOMAIN M.val = (0..(Shape0(B1) - 1)) \X (0..(dimspace * Shape0(B2) - 1))
    /\ \A r \in 0..(Shape0(B1) - 1), a \in 0..(dimspace - 1),
          c \in 0..(Shape0(B2) - 1) :
         M.val[<<r, a * Shape0(B2) + c>>]
           = QuadAxisSum(B1[r + 1], a + 1, B2[c + 1], Len(qr))

\* two scalar functions and two nodes, with blocks that differ from axis to axis
MixedGramLayoutWitness ==
  /\ GramDone
  /\ op = MixedOp
  /\ Shape0(B1) = 2
  /\ Shape0(B2) = 2
  /\ Len(qr) = 2
  /\ M.val[<<1, 1>>] # M.val[<<1, 3>>]
  /\ M.val[<<1, 3>>] # M.val[<<1, 5>>]
  /\ M.val[<<1, 2>>] # M.val[<<1, 3>>]

\* the matrix of all weighted inner products of the first nrows members of B1
\* with the first ncols members of B2
InnerProductMatrix ==
  [rows |-> nrows, cols |-> ncols,
   val |-> [e \in (0..(nrows - 1)) \X (0..(ncols - 1)) |-> InnerProduct(e[1], e[2])]]

\* C16: when B1 = B2 and nrows = ncols, the call with sym = "sym" returns the
\* same matrix as the call without the flag on the same inputs: both return
\* the matrix of the weighted inner products.
SymEqualsNonSym ==
  (GramDone /\ op \in ScalarOps \cup VectorOps /\ B1 = B2 /\ nrows = ncols) =>
    /\ sym = "nonsym" => M = InnerProductMatrix
    /\ sym = "sym" => M = InnerProductMatrix

\* a symmetric call on one family of two different members
SymEqualsNonSymWitness ==
  /\ GramDone
  /\ op \in ScalarOps \cup VectorOps
  /\ sym = "sym"
  /\ B1 = B2
  /\ nrows = 2
  /\ ncols = 2
  /\ Len(qr) = 2
  /\ M.val[<<1, 0>>] # 0
  /\ M.val[<<1, 0>>] # M.val[<<0, 0>>]
  /\ M.val[<<1, 0>>] # M.val[<<1, 1>>]

\* C14: in the overloads taking nrows and ncols, whatever sym is and however
\* nrows compares with ncols, every M(r, c) read or written has r < nrows and
\* c < ncols, and every M(j, i) read by the copy loop was computed before.
GramAccessesInBounds ==
  op \in ScalarOps \cup VectorOps =>
    \A a \in accessed :
      /\ a.row < nrows
      /\ a.col < ncols
      /\ a.kind = "read" => a.ready

(***************************************************************************)
(* Exact arithmetic for the local solves                                   *)
(***************************************************************************)
Abs(x) == IF x < 0 THEN -x ELSE x

RECURSIVE GCD(_, _)
GCD(a, b) == IF b = 0 THEN a ELSE GCD(b, a % b)

\* the rational n/d in lowest terms, d > 0
Rat(n, d) ==
  LET g == GCD(Abs(n), Abs(d))
      sgn == IF d < 0 THEN -1 ELSE 1
  IN  <<(sgn * n) \div g, (sgn * d) \div g>>

RatOfInt(n) == <<n, 1>>
RatAdd(a, b) == Rat(a[1] * b[2] + b[1] * a[2], a[2] * b[2])
RatMul(a, b) == Rat(a[1] * b[1], a[2] * b[2])
RatDiv(a, b) == Rat(a[1] * b[2], a[2] * b[1])

\* A without row r and column c
Minor(A, r, c) ==
  [a \in 1..(Len(A) - 1) |->
     [b \in 1..(Len(A) - 1) |->
        A[IF a < r THEN a ELSE a + 1][IF b < c THEN b ELSE b + 1]]]

RECURSIVE Det(_)
Det(A) ==
  IF Len(A) = 1 THEN A[1][1]
  ELSE SumSeq([c \in 1..Len(A) |->
                 (IF c % 2 = 1 THEN 1 ELSE -1) * A[1][c] * Det(Minor(A, 1, c))])

Leading(A, n) == [a \in 1..n |-> [b \in 1..n |-> A[a][b]]]

\* Sylvester's criterion, stopping at the first non-positive leading minor
RECURSIVE PositiveFrom(_, _)
PositiveFrom(A, n) ==
  IF n > Len(A) THEN TRUE
  ELSE IF Det(Leading(A, n)) <= 0 THEN FALSE
  ELSE PositiveFrom(A, n + 1)

PositiveDefinite(A) == PositiveFrom(A, 1)

\* A with column c replaced by b
WithColumn(A, c, b) ==
  [r \in 1..Len(A) |-> [d \in 1..Len(A) |-> IF d = c THEN b[r] ELSE A[r][d]]]

\* the solution of A u = b for a positive-definite A
ExactSolution(A, b) ==
  LET dA == Det(A)
  IN  [c \in 1..Len(A) |-> Rat(Det(WithColumn(A, c, b)), dA)]

\* what the factorisation of a matrix that is not positive-definite may leave
FailedSolutions(n) ==
  {[c \in 1..n |-> RatOfInt(0)], [c \in 1..n |-> RatOfInt(-1)]}

\* hybridcore.hpp:379, 403  M.ldlt().solve(b): no status is read afterwards
LdltSolve(A, b) ==
  IF PositiveDefinite(A) THEN {ExactSolution(A, b)} ELSE FailedSolutions(Len(b))

(***************************************************************************)
(* HybridCore: degrees of freedom, mesh, quadrature and bases              *)
(***************************************************************************)
\* degree 0 stands in for the cell degree when L = -1
Ldeg == IF L > 0 THEN L ELSE 0

dim_Pcell(m) == ((m + 1) * (m + 2) * (m + 3)) \div 6
dim_Pface(m) == ((m + 1) * (m + 2)) \div 2

nlocal_cell_dofs == dim_Pcell(Ldeg)
nlocal_face_dofs == dim_Pface(K)
ntotal_cell_dofs == nlocal_cell_dofs * mesh.n_cells
ntotal_face_dofs == nlocal_face_dofs * mesh.n_faces
ntotal_dofs == ntotal_cell_dofs + ntotal_face_dofs

\* the ascending sequence of the elements of a set of naturals
RECURSIVE Ascending(_)
Ascending(S) ==
  IF S = {} THEN <<>>
  ELSE LET lo == CHOOSE x \in S : \A y \in S : x <= y
       IN  <<lo>> \o Ascending(S \ {lo})

\* meshes: cell c lists every face (global indices, cell->face(ilF)), or every
\* face but one
FacesOfCell(pattern, c, nf) ==
  IF pattern = "all" \/ nf = 1 THEN Ascending(0..(nf - 1))
  ELSE Ascending((0..(nf - 1)) \ {c % nf})

Meshes ==
  {[n_cells |-> nc, n_faces |-> nf,
    faces |-> [c \in 1..nc |-> FacesOfCell(pattern, c - 1, nf)]] :
     nc \in 1..MaxCells, nf \in 1..MaxFaces, pattern \in {"all", "skip"}}

CellFaces(c) == mesh.faces[c + 1]

\* synthetic geometry: unit diameters, axis-aligned frames
CellCenter(c) == <<c, 0, 0>>
FaceCenter(fc) == <<fc + 1, 0, 0>>

\* quadrature nodes relative to the centre of mass, <<x, y, z, w>>: one node
\* for degree of exactness 0, a unisolvent set for degree 1 and above
FaceNodes(d) ==
  IF d = 0 THEN << <<0, 0, 0, 3>> >>
  ELSE << <<1, 0, 0, 1>>, <<0, 1, 0, 1>>, <<-1, -1, 0, 1>> >>

CellNodes(d) ==
  IF d = 0 THEN << <<0, 0, 0, 4>> >>
  ELSE << <<1, 0, 0, 1>>, <<0, 1, 0, 1>>, <<0, 0, 1, 1>>, <<-1, -1, -1, 1>> >>

generate_quadrature_rule(center, nodes) ==
  [q \in 1..Len(nodes) |->
     [x |-> center[1] + nodes[q][1], y |-> center[2] + nodes[q][2],
      z |-> center[3] + nodes[q][3], w |-> nodes[q][4]]]

\* the exponents in the order of the constructors' loops
RECURSIVE CellPowerSeq(_)
RECURSIVE CellLevel(_, _)
CellLevel(ll, ii) ==
  IF ii > ll THEN <<>>
  ELSE [jj \in 1..(ll - ii + 1) |-> CellPowers(ll, ii, jj - 1)] \o CellLevel(ll, ii + 1)

CellPowerSeq(m) ==
  IF m < 0 THEN <<>> ELSE CellPowerSeq(m - 1) \o CellLevel(m, 0)

RECURSIVE FacePowerSeq(_)
FacePowerSeq(m) ==
  IF m < 0 THEN <<>>
  ELSE FacePowerSeq(m - 1) \o [ii \in 1..(m + 1) |-> FacePowers(m, ii - 1)]

\* cell_basis(iT, i)(x, y, z) and face_basis(iF, i)(x, y, z)
cell_basis(c, n, x, y, z) ==
  LET powers == CellPowerSeq(Ldeg)[n + 1]
      xT == CellCenter(c)
  IN  basisScale.cell * Pow(x - xT[1], powers[1]) * Pow(y - xT[2], powers[2])
        * Pow(z - xT[3], powers[3])

face_basis(fc, n, x, y, z) ==
  LET powers == FacePowerSeq(K)[n + 1]
      xF == FaceCenter(fc)
  IN  basisScale.face * Pow(x - xF[1], powers[1]) * Pow(y - xF[2], powers[2])

\* basis_quad(cellface, iTF, quad, degree): phi_quad[i][iqn]
basis_quad(cellface, e, quad, n) ==
  [a \in 1..n |->
     [q \in 1..Len(quad) |->
        IF cellface = "cell"
          THEN cell_basis(e, a - 1, quad[q].x, quad[q].y, quad[q].z)
          ELSE face_basis(e, a - 1, quad[q].x, quad[q].y, quad[q].z)]]

\* gram_matrix(f_quad, f_quad, n, n, quad, true)
gram_matrix(phi, n, quad) ==
  [a \in 1..n |->
     [b \in 1..n |->
        SumSeq([q \in 1..Len(quad) |-> quad[q].w * phi[a][q] * phi[b][q]])]]

\* the function to interpolate
Functions == {[c0 |-> 1, cx |-> 0], [c0 |-> 3, cx |-> 0], [c0 |-> 0, cx |-> 1]}

EvalF(x, y, z) == f.c0 + f.cx * x

\* compute_weights(iT): one weight per face of the cell
compute_weights(c) ==
  LET n == Len(CellFaces(c))
  IN  [ilF \in 1..n |->
         IF weightsMode = "normalised"
           THEN Rat(2 * ilF, n * (n + 1))
           ELSE RatOfInt(ilF)]

InitInterp ==
  /\ op = "interpolate"
  /\ pc = "alloc"
  /\ mesh \in Meshes
  /\ K \in 0..MaxK
  /\ L \in (-1)..MaxL
  /\ basisScale \in {[cell |-> 1, face |-> 1], [cell |-> 2, face |-> 4]}
  /\ weightsMode \in {"normalised", "raw"}
  /\ f \in Functions
  /\ doe \in 0..MaxDoe
  /\ XTF = <<>>
  /\ iF = 0
  /\ iT = 0
  /\ failed = {}
  /\ lastWrite = NoWrite
  /\ writtenXTF = {}
  /\ readXTF = {}
  /\ i = 0
  /\ j = 0
  /\ BasisIdle
  /\ GramIdle
  /\ EvalIdle
  /\ QuadIdle

(***************************************************************************)
(* HybridCore::interpolate                                                 *)
(***************************************************************************)
\* Eigen::VectorXd::Zero(n), indexed from 0
ZeroVector(n) == [x \in 0..(n - 1) |-> RatOfInt(0)]

\* XTF.segment(start, n) = U
Segment(start, n) == start..(start + n - 1)

SegmentAssign(X, start, n, U) ==
  [x \in DOMAIN X |-> IF x \in Segment(start, n) THEN U[x - start + 1] ELSE X[x]]

\* bF(i) += quadF[iqn].w * phiF_quadF[i](iqn) * f(quadF[iqn].x, ...)
LoadVector(phi, n, quad) ==
  [a \in 1..n |->
     SumSeq([q \in 1..Len(quad) |->
               quad[q].w * phi[a][q] * EvalF(quad[q].x, quad[q].y, quad[q].z)])]

\* FaceOffset without the cell block in front
FaceOffset_noCells(fc) == fc * nlocal_face_dofs

\* hybridcore.hpp:382  _ntotal_cell_dofs + iF * _nlocal_face_dofs
FaceOffset(fc) == ntotal_cell_dofs + fc * nlocal_face_dofs

\* hybridcore.hpp:406  offset_T = iT * _nlocal_cell_dofs
CellOffset(c) == c * nlocal_cell_dofs

\* FaceValueIndex pointing at the slot numbered like the face
FaceValueIndex_cellSlot(fc) == fc

\* hybridcore.hpp:426  _ntotal_cell_dofs + iF
FaceValueIndex(fc) == ntotal_cell_dofs + fc

\* hybridcore.hpp:359  XTF = Eigen::VectorXd::Zero(_ntotal_dofs)
InterpAlloc ==
  /\ op = "interpolate"
  /\ pc = "alloc"
  /\ XTF' = ZeroVector(ntotal_dofs)
  /\ iF' = 0
  /\ pc' = "faces"
  /\ UNCHANGED <<op, hybridCore, f, doe, iT, failed, lastWrite, writtenXTF, readXTF,
                 i, j, basisVars, gramVars, evalVars, quadVars>>

\* hybridcore.hpp:362-383  one pass of the face loop
FaceProjection ==
  /\ op = "interpolate"
  /\ pc = "faces"
  /\ IF iF < mesh.n_faces
       THEN LET quadF == generate_quadrature_rule(FaceCenter(iF), FaceNodes(doe))
                phiF_quadF == basis_quad("face", iF, quadF, nlocal_face_dofs)
                MF == gram_matrix(phiF_quadF, nlocal_face_dofs, quadF)
                bF == LoadVector(phiF_quadF, nlocal_face_dofs, quadF)
            IN  /\ \E UF \in LdltSolve(MF, bF) :
                     XTF' = SegmentAssign(XTF, FaceOffset(iF), nlocal_face_dofs, UF)
                /\ failed' = IF PositiveDefinite(MF) THEN failed
                             ELSE failed \cup {<<"face", iF>>}
                /\ lastWrite' = [entity |-> <<"face", iF>>,
                                 idx |-> Segment(FaceOffset(iF), nlocal_face_dofs)
                                           \cap DOMAIN XTF]
                /\ writtenXTF' = writtenXTF \cup (Segment(FaceOffset(iF), nlocal_face_dofs)
                                                   \cap DOMAIN XTF)
                /\ iF' = iF + 1
                /\ UNCHANGED <<pc, iT>>
       ELSE /\ pc' = "cells"
            /\ iT' = 0
            /\ lastWrite' = NoWrite
            /\ UNCHANGED <<XTF, failed, iF, writtenXTF>>
  /\ UNCHANGED <<op, hybridCore, f, doe, readXTF, i, j, basisVars, gramVars, evalVars, quadVars>>

\* hybridcore.hpp:385-410  one pass of the cell loop up to the test on _L
CellProjection ==
  /\ op = "interpolate"
  /\ pc = "cells"
  /\ IF iT < mesh.n_cells
       THEN LET quadT == generate_quadrature_rule(CellCenter(iT), CellNodes(doe))
                phiT_quadT == basis_quad("cell", iT, quadT, nlocal_cell_dofs)
                MT == gram_matrix(phiT_quadT, nlocal_cell_dofs, quadT)
                bT == LoadVector(phiT_quadT, nlocal_cell_dofs, quadT)
            IN  /\ \E UT \in LdltSolve(MT, bT) :
                     XTF' = SegmentAssign(XTF, CellOffset(iT), nlocal_cell_dofs, UT)
                /\ failed' = IF PositiveDefinite(MT) THEN failed
                             ELSE failed \cup {<<"cell", iT>>}
                /\ lastWrite' = [entity |-> <<"cell", iT>>,
                                 idx |-> Segment(CellOffset(iT), nlocal_cell_dofs)
                                           \cap DOMAIN XTF]
                /\ writtenXTF' = writtenXTF \cup (Segment(CellOffset(iT), nlocal_cell_dofs)
                                                   \cap DOMAIN XTF)
                /\ IF L = -1
                     THEN pc' = "average" /\ iT' = iT
                     ELSE pc' = pc /\ iT' = iT + 1
       ELSE /\ pc' = "returned"
            /\ lastWrite' = NoWrite
            /\ UNCHANGED <<XTF, failed, iT, writtenXTF>>
  /\ UNCHANGED <<op, hybridCore, f, doe, iF, readXTF, i, j, basisVars, gramVars, evalVars, quadVars>>

\* hybridcore.hpp:412-421  barycoefT(ilF) *= phiF_cst / phiT_cst
RescaledWeights(c) ==
  LET xT == CellCenter(c)
      phiT_cst == cell_basis(c, 0, xT[1], xT[2], xT[3])
      barycoefT == compute_weights(c)
  IN  [ilF \in 1..Len(CellFaces(c)) |->
         LET fc == CellFaces(c)[ilF]
             xF == FaceCenter(fc)
             phiF_cst == face_basis(fc, 0, xF[1], xF[2], xF[3])
         IN  RatMul(barycoefT[ilF], Rat(phiF_cst, phiT_cst))]

\* hybridcore.hpp:423-427  XTF(iT) = 0; XTF(iT) += barycoefT(ilF) * XTF(...)
RECURSIVE FaceAverage(_, _, _)
FaceAverage(X, c, n) ==
  IF n = 0 THEN RatOfInt(0)
  ELSE RatAdd(FaceAverage(X, c, n - 1),
              RatMul(RescaledWeights(c)[n], X[FaceValueIndex(CellFaces(c)[n])]))

\* hybridcore.hpp:410-428  the L = -1 branch of the cell loop
CellAverage ==
  /\ op = "interpolate"
  /\ pc = "average"
  /\ XTF' = [XTF EXCEPT ![iT] = FaceAverage(XTF, iT, Len(CellFaces(iT)))]
  /\ lastWrite' = [entity |-> <<"cell", iT>>, idx |-> {iT}]
  /\ writtenXTF' = writtenXTF \cup {iT}
  /\ readXTF' = readXTF \cup {FaceValueIndex(CellFaces(iT)[n]) : n \in 1..Len(CellFaces(iT))}
  /\ iT' = iT + 1
  /\ pc' = "cells"
  /\ UNCHANGED <<op, hybridCore, f, doe, iF, failed, i, j, basisVars, gramVars, evalVars, quadVars>>

NextInterp ==
  \/ InterpAlloc
  \/ FaceProjection
  \/ CellProjection
  \/ CellAverage

SpecInterp == InitInterp /\ [][NextInterp]_vars

(***************************************************************************)
(* Properties of interpolate                                               *)
(***************************************************************************)
CellSlice(c) ==
  {x \in 0..(ntotal_dofs - 1) :
     c * nlocal_cell_dofs <= x /\ x < (c + 1) * nlocal_cell_dofs}

FaceSlice(fc) ==
  {x \in 0..(ntotal_dofs - 1) :
     /\ ntotal_cell_dofs + fc * nlocal_face_dofs <= x
     /\ x < ntotal_cell_dofs + (fc + 1) * nlocal_face_dofs}

Entities ==
  {<<"cell", c>> : c \in 0..(mesh.n_cells - 1)}
    \cup {<<"face", fc>> : fc \in 0..(mesh.n_faces - 1)}

SliceOf(e) == IF e[1] = "cell" THEN CellSlice(e[2]) ELSE FaceSlice(e[2])

\* the entity the next step of interpolate works on
ActingSlice ==
  IF pc = "faces" THEN FaceSlice(iF)
  ELSE IF pc \in {"cells", "average"} THEN CellSlice(iT)
  ELSE {}

LayoutState ==
  (op = "interpolate" /\ pc # "alloc") =>
    /\ DOMAIN XTF = 0..(ntotal_cell_dofs + ntotal_face_dofs - 1)
    /\ \A e1, e2 \in Entities : e1 # e2 => SliceOf(e1) \cap SliceOf(e2) = {}
    /\ \A e1, e2 \in Entities :
         (e1[1] = "cell" /\ e2[1] = "face") =>
           \A x1 \in SliceOf(e1), x2 \in SliceOf(e2) : x1 < x2
    /\ UNION {SliceOf(e) : e \in Entities} = DOMAIN XTF
    /\ lastWrite.entity[1] = "face" =>
         (lastWrite.idx = FaceSlice(lastWrite.entity[2])
            /\ Cardinality(lastWrite.idx) = nlocal_face_dofs)
    /\ lastWrite.entity[1] = "cell" =>
         (lastWrite.idx \subseteq CellSlice(lastWrite.entity[2])
            /\ (pc = "cells" /\ L # -1) =>
                 (lastWrite.idx = CellSlice(lastWrite.entity[2])
                    /\ Cardinality(lastWrite.idx) = nlocal_cell_dofs))

LayoutStep ==
  (op = "interpolate" /\ pc # "alloc") =>
    /\ DOMAIN XTF' = DOMAIN XTF
    /\ \A x \in DOMAIN XTF : XTF'[x] # XTF[x] => x \in ActingSlice

\* C3: in the vector of interpolate cell iT owns the indices
\* [iT*nlocal_cell_dofs, (iT+1)*nlocal_cell_dofs) and face iF the indices
\* [ntotal_cell_dofs + iF*nlocal_face_dofs, ntotal_cell_dofs + (iF+1)*nlocal_face_dofs);
\* the slices are pairwise disjoint, cells come before faces, together they
\* cover the ntotal_dofs entries, and a step working on one entity assigns that
\* entity's slice and changes no entry outside it.
DofLayout == [](LayoutState) /\ [][LayoutStep]_vars

DofLayoutWitness ==
  /\ op = "interpolate"
  /\ pc = "faces"
  /\ K = 1
  /\ L = 1
  /\ mesh.n_cells = 2
  /\ lastWrite = [entity |-> <<"face", 1>>, idx |-> {11, 12, 13}]
  /\ XTF[11] # RatOfInt(0)
  /\ XTF[8] # RatOfInt(0)

\* the sum over the first n faces of cell c of (rescaled weight) * (first entry
\* of the face's block)
RECURSIVE ZeroOrderAverage(_, _)
ZeroOrderAverage(c, n) ==
  IF n = 0 THEN RatOfInt(0)
  ELSE LET fc == CellFaces(c)[n]
           xF == FaceCenter(fc)
           xT == CellCenter(c)
           w == RatMul(compute_weights(c)[n],
                       Rat(face_basis(fc, 0, xF[1], xF[2], xF[3]),
                           cell_basis(c, 0, xT[1], xT[2], xT[3])))
       IN  RatAdd(ZeroOrderAverage(c, n - 1),
                  RatMul(w, XTF[ntotal_cell_dofs + fc * nlocal_face_dofs]))

\* C4: when L = -1, for every cell and every face degree K >= 0, the cell slot
\* XTF(iT) left by interpolate is the sum over the cell's faces of the rescaled
\* weight times the first entry of that face's block, at index
\* ntotal_cell_dofs + iF*nlocal_face_dofs.
CellSlotIsZeroOrderAverage ==
  (op = "interpolate" /\ pc = "returned" /\ L = -1) =>
    \A c \in 0..(mesh.n_cells - 1) :
      XTF[c] = ZeroOrderAverage(c, Len(CellFaces(c)))

\* C5: when L = -1, f is the constant c and the weights of each cell sum to 1,
\* every cell slot holds the coefficient of c: the constant cell basis function
\* times the coefficient is c, for any number of faces and any K (all local
\* mass matrices being positive-definite).
ConstantReproduced ==
  (/\ op = "interpolate"
   /\ pc = "returned"
   /\ L = -1
   /\ f.cx = 0
   /\ weightsMode = "normalised"
   /\ failed = {}) =>
    \A c \in 0..(mesh.n_cells - 1) :
      LET xT == CellCenter(c)
      IN  RatMul(XTF[c], RatOfInt(cell_basis(c, 0, xT[1], xT[2], xT[3])))
            = RatOfInt(f.c0)

\* C7: when a local face or cell mass matrix is not positive-definite,
\* interpolate does not return a vector of coefficients.
FailedSolveNotReturned ==
  (op = "interpolate" /\ failed # {}) => pc # "returned"

\* the part of XTF that holds the face blocks
FaceRegion == {x \in 0..(ntotal_dofs - 1) : x >= ntotal_cell_dofs}

FaceLoopOver == pc \in {"cells", "average", "returned"}

FaceValuesState ==
  (op = "interpolate" /\ L = -1) =>
    /\ FaceLoopOver =>
         /\ iF = mesh.n_faces
         /\ \A fc \in 0..(mesh.n_faces - 1) : FaceSlice(fc) \subseteq writtenXTF
         /\ FaceRegion \subseteq writtenXTF
    /\ ~FaceLoopOver => (iT = 0 /\ readXTF = {})
    /\ readXTF \subseteq FaceRegion \cap writtenXTF

FaceValuesStep ==
  (op = "interpolate" /\ L = -1 /\ FaceLoopOver) =>
    /\ \A x \in FaceRegion : XTF'[x] = XTF[x]
    /\ (writtenXTF' \ writtenXTF) \cap FaceRegion = {}
    /\ lastWrite'.entity[1] # "face"

\* C15: in interpolate with L = -1 every face coefficient read by the averaging
\* step of a cell already holds its final value: all face blocks are written
\* before the first cell is processed and no face slot is written after the
\* face loop has ended.
FaceValuesFinalBeforeCells == [](FaceValuesState) /\ [][FaceValuesStep]_vars

\* two cells averaged over faces holding two coefficients each
FaceValuesFinalBeforeCellsWitness ==
  /\ op = "interpolate"
  /\ pc = "returned"
  /\ L = -1
  /\ K = 1
  /\ mesh.n_cells = 2
  /\ Cardinality(readXTF) >= 2
  /\ \E x \in readXTF : XTF[x] # RatOfInt(0)

(***************************************************************************)
(* Monomial bases: double arithmetic, exact on finite values               *)
(***************************************************************************)
\* a double is a rational <<n, d>>, an infinity <<1, 0>> or <<-1, 0>>, or NaN
NaN == <<0, 0>>
IsFinite(a) == a[2] # 0
Sign(n) == IF n < 0 THEN -1 ELSE IF n = 0 THEN 0 ELSE 1

FMul(a, b) ==
  IF IsFinite(a) /\ IsFinite(b) THEN RatMul(a, b)
  ELSE IF a[1] = 0 \/ b[1] = 0 THEN NaN
  ELSE <<Sign(a[1]) * Sign(b[1]), 0>>

FAdd(a, b) ==
  IF IsFinite(a) /\ IsFinite(b) THEN RatAdd(a, b)
  ELSE IF a = NaN \/ b = NaN THEN NaN
  ELSE IF IsFinite(a) THEN b
  ELSE IF IsFinite(b) THEN a
  ELSE IF a = b THEN a ELSE NaN

\* a / h for an integer h > 0
FDivInt(a, h) == FMul(a, <<1, h>>)

RECURSIVE RatPow(_, _)
RatPow(y, n) == IF n = 0 THEN RatOfInt(1) ELSE RatMul(y, RatPow(y, n - 1))

\* std::pow(y, n) for an int exponent
std_pow(y, n) ==
  IF n >= 0 THEN RatPow(y, n)
  ELSE IF y[1] = 0 THEN <<1, 0>>
  ELSE RatDiv(RatOfInt(1), RatPow(y, -n))

\* a - b in size_t; a negative result -d stands for the wrapped value 2^64 - d
SizeSub(a, b) == a - b

\* std::pow(y, n) for a size_t exponent converted to double; a wrapped
\* exponent is a huge even number
std_pow_size(y, n) ==
  IF n >= 0 THEN RatPow(y, n)
  ELSE IF Abs(y[1]) < y[2] THEN RatOfInt(0)
  ELSE IF Abs(y[1]) = y[2] THEN RatOfInt(1)
  ELSE <<1, 0>>

(***************************************************************************)
(* Monomial bases: function and gradient                                   *)
(***************************************************************************)
CellEvalOps == {"MonomialScalarBasisCell::function", "MonomialScalarBasisCell::gradient"}
FaceEvalOps == {"MonomialScalarBasisFace::function", "MonomialScalarBasisFace::gradient"}
EdgeEvalOps == {"MonomialScalarBasisEdge::function", "MonomialScalarBasisEdge::gradient"}
EvalOps == CellEvalOps \cup FaceEvalOps \cup EdgeEvalOps
FunctionOps == {"MonomialScalarBasisCell::function", "MonomialScalarBasisFace::function",
                "MonomialScalarBasisEdge::function"}
GradientOps == EvalOps \ FunctionOps

Coords == (-MaxCoord)..MaxCoord
Points == Coords \X Coords \X Coords
Centers == {<<0, 0, 0>>, <<1, 0, -1>>}
Diameters == {1, 2}

\* tangent of edge 0 and in-plane normal of a face
FaceFrames == { << <<1, 0, 0>>, <<0, 1, 0>> >>, << <<0, 0, 1>>, <<1, 0, 0>> >> }
Tangents == {<<1, 0, 0>>, <<0, 0, 1>>}

\* basis.cpp:55-59  m_jacobian rows: tangent and edge normal, divided by m_hF
Jacobian(frame, hF) ==
  [r \in 1..2 |-> [c \in 1..dimspace |-> Rat(frame[r][c], hF)]]

\* the number of functions of the basis
Dimension ==
  IF op \in CellEvalOps THEN Len(m_powers)
  ELSE IF op \in FaceEvalOps THEN Len(m_powers)
  ELSE m_degree + 1

InitEval ==
  /\ op \in EvalOps
  /\ pc = "call"
  /\ m_degree \in 0..MaxEvalDegree
  /\ m_powers = (IF op \in CellEvalOps THEN CellPowerSeq(m_degree)
                 ELSE IF op \in FaceEvalOps THEN FacePowerSeq(m_degree)
                 ELSE <<>>)
  /\ m_x \in Centers
  /\ m_h \in Diameters
  /\ m_jacobian \in (IF op \in FaceEvalOps
                       THEN {Jacobian(fr, m_h) : fr \in FaceFrames}
                       ELSE {<<>>})
  /\ m_tE \in (IF op \in EdgeEvalOps THEN Tangents ELSE {<<>>})
  /\ i \in 0..(Dimension - 1)
  /\ point \in Points
  /\ grad = <<>>
  /\ result = <<>>
  /\ powArgs = {}
  /\ l = 0
  /\ j = 0
  /\ GramIdle
  /\ InterpIdle
  /\ QuadIdle

\* MonomialScalarBasisCell::_coordinate_transform: (x - m_xT) / m_hT
CellTransform(xx) == [c \in 1..dimspace |-> Rat(xx[c] - m_x[c], m_h)]

\* MonomialScalarBasisFace::_coordinate_transform: m_jacobian * (x - m_xF)
FaceTransform(xx) ==
  [r \in 1..2 |->
     FAdd(FAdd(FMul(m_jacobian[r][1], RatOfInt(xx[1] - m_x[1])),
               FMul(m_jacobian[r][2], RatOfInt(xx[2] - m_x[2]))),
          FMul(m_jacobian[r][3], RatOfInt(xx[3] - m_x[3])))]

\* MonomialScalarBasisEdge::_coordinate_transform: (x - m_xE).dot(m_tE) / m_hE
EdgeTransform(xx) ==
  Rat((xx[1] - m_x[1]) * m_tE[1] + (xx[2] - m_x[2]) * m_tE[2]
        + (xx[3] - m_x[3]) * m_tE[3], m_h)

\* the product of std::pow(y(c), e[c]) over the coordinates
RECURSIVE PowProduct(_, _, _)
PowProduct(y, e, n) ==
  IF n = 0 THEN RatOfInt(1)
  ELSE FMul(PowProduct(y, e, n - 1), std_pow(y[n], e[n]))

\* the exponents of one term: powers, with powers(c) - 1 in place c
Lowered(powers, c) == [d \in DOMAIN powers |-> IF d = c THEN powers[d] - 1 ELSE powers[d]]

\* one component of the local gradient without the test on powers(c)
PowerRule_unguarded(y, powers, c) ==
  [val |-> FMul(RatOfInt(powers[c]), PowProduct(y, Lowered(powers, c), Len(powers))),
   exps |-> {Lowered(powers, c)[d] : d \in DOMAIN powers}]

\* basis.cpp:40-42, 82-83
\*   grad(c) = (powers(c) == 0 ? 0. : powers(c) * pow(y(c), powers(c)-1) * ...)
PowerRule(y, powers, c) ==
  IF powers[c] = 0
    THEN [val |-> RatOfInt(0), exps |-> {}]
    ELSE [val |-> FMul(RatOfInt(powers[c]),
                       PowProduct(y, Lowered(powers, c), Len(powers))),
          exps |-> {Lowered(powers, c)[d] : d \in DOMAIN powers}]

\* basis.cpp:28-33  MonomialScalarBasisCell::function
CellFunction ==
  /\ op = "MonomialScalarBasisCell::function"
  /\ pc = "call"
  /\ LET y == CellTransform(point)
         powers == m_powers[i + 1]
     IN  /\ result' = PowProduct(y, powers, 3)
         /\ powArgs' = {powers[c] : c \in 1..3}
  /\ pc' = "returned"
  /\ UNCHANGED <<op, i, j, grad, point, entityVars, basisVars, gramVars, interpVars, quadVars>>

\* basis.cpp:35-44  MonomialScalarBasisCell::gradient
CellGradient ==
  /\ op = "MonomialScalarBasisCell::gradient"
  /\ pc = "call"
  /\ LET y == CellTransform(point)
         powers == m_powers[i + 1]
         g == [c \in 1..3 |-> PowerRule(y, powers, c)]
     IN  /\ grad' = [c \in 1..3 |-> g[c].val]
         /\ result' = [c \in 1..3 |-> FDivInt(g[c].val, m_h)]
         /\ powArgs' = UNION {g[c].exps : c \in 1..3}
  /\ pc' = "returned"
  /\ UNCHANGED <<op, i, j, point, entityVars, basisVars, gramVars, interpVars, quadVars>>

\* basis.cpp:70-75  MonomialScalarBasisFace::function
FaceFunction ==
  /\ op = "MonomialScalarBasisFace::function"
  /\ pc = "call"
  /\ LET y == FaceTransform(point)
         powers == m_powers[i + 1]
     IN  /\ result' = PowProduct(y, powers, 2)
         /\ powArgs' = {powers[c] : c \in 1..2}
  /\ pc' = "returned"
  /\ UNCHANGED <<op, i, j, grad, point, entityVars, basisVars, gramVars, interpVars, quadVars>>

\* basis.cpp:77-85  MonomialScalarBasisFace::gradient
FaceGradient ==
  /\ op = "MonomialScalarBasisFace::gradient"
  /\ pc = "call"
  /\ LET y == FaceTransform(point)
         powers == m_powers[i + 1]
         g == [c \in 1..2 |-> PowerRule(y, powers, c)]
     IN  /\ grad' = [c \in 1..2 |-> g[c].val]
         /\ result' = [c \in 1..dimspace |->
                         FAdd(FMul(m_jacobian[1][c], g[1].val),
                              FMul(m_jacobian[2][c], g[2].val))]
         /\ powArgs' = UNION {g[c].exps : c \in 1..2}
  /\ pc' = "returned"
  /\ UNCHANGED <<op, i, j, point, entityVars, basisVars, gramVars, interpVars, quadVars>>

\* basis.cpp:105-108  MonomialScalarBasisEdge::function
EdgeFunction ==
  /\ op = "MonomialScalarBasisEdge::function"
  /\ pc = "call"
  /\ result' = std_pow_size(EdgeTransform(point), i)
  /\ powArgs' = {i}
  /\ pc' = "returned"
  /\ UNCHANGED <<op, i, j, grad, point, entityVars, basisVars, gramVars, interpVars, quadVars>>

\* the scalar factor of the edge gradient without the test on i
EdgeDerivative_unguarded(y, n) ==
  [val |-> FDivInt(FMul(RatOfInt(n), std_pow_size(y, SizeSub(n, 1))), m_h),
   exps |-> {SizeSub(n, 1)}]

\* basis.cpp:112  (i == 0 ? 0. : i * std::pow(y, i - 1) / m_hE)
EdgeDerivative(y, n) ==
  IF n = 0
    THEN [val |-> RatOfInt(0), exps |-> {}]
    ELSE [val |-> FDivInt(FMul(RatOfInt(n), std_pow_size(y, SizeSub(n, 1))), m_h),
          exps |-> {SizeSub(n, 1)}]

\* basis.cpp:110-113  MonomialScalarBasisEdge::gradient
EdgeGradient ==
  /\ op = "MonomialScalarBasisEdge::gradient"
  /\ pc = "call"
  /\ LET d == EdgeDerivative(EdgeTransform(point), i)
     IN  /\ grad' = <<d.val>>
         /\ result' = [c \in 1..dimspace |-> FMul(d.val, RatOfInt(m_tE[c]))]
         /\ powArgs' = d.exps
  /\ pc' = "returned"
  /\ UNCHANGED <<op, i, j, point, entityVars, basisVars, gramVars, interpVars, quadVars>>

NextEval ==
  \/ CellFunction
  \/ CellGradient
  \/ FaceFunction
  \/ FaceGradient
  \/ EdgeFunction
  \/ EdgeGradient

SpecEval == InitEval /\ [][NextEval]_vars

(***************************************************************************)
(* Properties of function and gradient                                     *)
(***************************************************************************)
EvalReturned == op \in EvalOps /\ pc = "returned"

ZeroVector3 == [c \in 1..dimspace |-> RatOfInt(0)]

\* C12: for the cell, face and edge bases of every degree, slot 0 is the
\* constant function: its exponents are all zero, function(0, x) is 1 and
\* gradient(0, x) is the zero vector at every point x.
SlotZeroConstant ==
  (op \in EvalOps /\ i = 0) =>
    /\ op \in CellEvalOps => m_powers[1] = <<0, 0, 0>>
    /\ op \in FaceEvalOps => m_powers[1] = <<0, 0>>
    /\ (pc = "returned" /\ op \in FunctionOps) => result = RatOfInt(1)
    /\ (pc = "returned" /\ op \in GradientOps) => result = ZeroVector3

\* the gradient of slot 0 taken at the centre of mass, where every local
\* coordinate is 0
SlotZeroConstantWitness ==
  /\ EvalReturned
  /\ op = "MonomialScalarBasisCell::gradient"
  /\ i = 0
  /\ m_degree = 2
  /\ point = m_x
  /\ result = ZeroVector3

\* C18: in the gradient of the cell, face and edge bases a coordinate whose
\* exponent is 0 contributes a derivative component of exactly 0, and
\* power - 1 is never an exponent when power is 0: std::pow gets no negative
\* exponent in the cell and face bases and no wrapped i - 1 in the edge basis.
ZeroExponentZeroDerivative ==
  (EvalReturned /\ op \in GradientOps) =>
    /\ op \notin EdgeEvalOps =>
         \A c \in 1..Len(grad) : m_powers[i + 1][c] = 0 => grad[c] = RatOfInt(0)
    /\ op = "MonomialScalarBasisCell::gradient" =>
         \A c \in 1..dimspace : m_powers[i + 1][c] = 0 => result[c] = RatOfInt(0)
    /\ (op \in EdgeEvalOps /\ i = 0) => (grad = <<RatOfInt(0)>> /\ result = ZeroVector3)
    /\ \A e \in powArgs : e >= 0

\* a cell monomial y * z: no derivative along x, a non-zero one along y
ZeroExponentZeroDerivativeWitness ==
  /\ EvalReturned
  /\ op = "MonomialScalarBasisCell::gradient"
  /\ m_powers[i + 1] = <<0, 1, 1>>
  /\ grad[1] = RatOfInt(0)
  /\ grad[2] # RatOfInt(0)
  /\ powArgs = {0, 1}

(***************************************************************************)
(* HybridCore: quadrature_over_* and integrate_over_*                      *)
(***************************************************************************)
QuadratureOps == {"quadrature_over_cell", "quadrature_over_face"}
IntegrateOps == {"integrate_over_cell", "integrate_over_face"}
DomainOp == "integrate_over_domain"
QuadOps == QuadratureOps \cup IntegrateOps \cup {DomainOp}
OverFace == op \in {"quadrature_over_face", "integrate_over_face"}

\* the argument iT or iF of the running function
Entity == IF OverFace THEN iF ELSE iT

\* _mesh_ptr->n_cells() or _mesh_ptr->n_faces()
EntityCount == IF OverFace THEN mesh.n_faces ELSE mesh.n_cells

InitQuad ==
  /\ op \in QuadOps
  /\ pc = (IF op = DomainOp THEN "call"
           ELSE IF op \in IntegrateOps THEN "integrate_assert"
           ELSE "quad_assert")
  /\ mesh \in Meshes
  /\ K \in 0..MaxK
  /\ L \in (-1)..MaxL
  /\ f \in Functions
  /\ iT \in (IF op \in {"quadrature_over_cell", "integrate_over_cell"}
               THEN 0..MaxCells ELSE {0})
  /\ iF \in (IF OverFace THEN 0..MaxFaces ELSE {0})
  /\ basisScale = [cell |-> 1, face |-> 1]
  /\ weightsMode = "normalised"
  /\ doe = 0
  /\ XTF = <<>>
  /\ failed = {}
  /\ lastWrite = NoWrite
  /\ writtenXTF = {}
  /\ readXTF = {}
  /\ QuadIdle
  /\ i = 0
  /\ j = 0
  /\ BasisIdle
  /\ GramIdle
  /\ EvalIdle

\* hybridcore.hpp:307  generate_quadrature_rule(*_mesh_ptr->cell(iT), 2 * _Ldeg + 2)
CellRule(c) == generate_quadrature_rule(CellCenter(c), CellNodes(2 * Ldeg + 2))

\* hybridcore.hpp:317  generate_quadrature_rule(*_mesh_ptr->face(iF), 2 * _K + 2)
FaceRule(fc) == generate_quadrature_rule(FaceCenter(fc), FaceNodes(2 * K + 2))

\* EvaluatorArgs numbering the nodes from 1
EvaluatorArgs_fromOne(rule, n) ==
  [iqn |-> n + 1, x |-> rule[n + 1].x, y |-> rule[n + 1].y,
   z |-> rule[n + 1].z, w |-> rule[n + 1].w]

\* hybridcore.hpp:309, 319
\*   f(iqn, quadT[iqn].x, quadT[iqn].y, quadT[iqn].z, quadT[iqn].w)
EvaluatorArgs(rule, n) ==
  [iqn |-> n, x |-> rule[n + 1].x, y |-> rule[n + 1].y,
   z |-> rule[n + 1].z, w |-> rule[n + 1].w]

\* hybridcore.hpp:327-328, 336-337  the evaluator [&ans, &f]: ans += w * f(x, y, z)
Accumulate(a, c) == a + c.w * EvalF(c.x, c.y, c.z)

\* hybridcore.hpp:343  double value = 0.0; iT = 0
DomainEnter ==
  /\ op = DomainOp
  /\ pc = "call"
  /\ value' = 0
  /\ iT' = 0
  /\ pc' = "domain_for"
  /\ UNCHANGED <<op, hybridCore, f, iF, interpLocals, quadRule, iqn, calls, ans,
                 i, j, basisVars, gramVars, evalVars>>

\* hybridcore.hpp:344-347  for (iT = 0; iT < n_cells; iT++) ...; return value
DomainLoop ==
  /\ op = DomainOp
  /\ pc = "domain_for"
  /\ pc' = (IF iT < mesh.n_cells THEN "integrate_assert" ELSE "returned")
  /\ UNCHANGED <<op, hybridCore, f, iT, iF, interpLocals, quadVars,
                 i, j, basisVars, gramVars, evalVars>>

\* hybridcore.hpp:325-326, 334-335  assert(iT < n_cells); double ans = 0.0
IntegrateEnter ==
  /\ op \in IntegrateOps \cup {DomainOp}
  /\ pc = "integrate_assert"
  /\ IF Entity < EntityCount
       THEN ans' = 0 /\ pc' = "quad_assert"
       ELSE ans' = ans /\ pc' = "aborted"
  /\ UNCHANGED <<op, hybridCore, f, iT, iF, interpLocals, quadRule, iqn, calls, value,
                 i, j, basisVars, gramVars, evalVars>>

\* hybridcore.hpp:306-307, 315-317  assert(iT < n_cells); quadT = generate_quadrature_rule(...)
QuadEnter ==
  /\ op \in QuadOps
  /\ pc = "quad_assert"
  /\ IF Entity < EntityCount
       THEN /\ quadRule' = (IF OverFace THEN FaceRule(iF) ELSE CellRule(iT))
            /\ iqn' = 0
            /\ calls' = <<>>
            /\ pc' = "quad_for"
       ELSE /\ pc' = "aborted"
            /\ UNCHANGED <<quadRule, iqn, calls>>
  /\ UNCHANGED <<op, hybridCore, f, iT, iF, interpLocals, ans, value,
                 i, j, basisVars, gramVars, evalVars>>

\* hybridcore.hpp:308-310, 318-320  for (iqn = 0; iqn < quadT.size(); iqn++) f(iqn, ...)
QuadLoop ==
  /\ op \in QuadOps
  /\ pc = "quad_for"
  /\ IF iqn < Len(quadRule)
       THEN /\ calls' = Append(calls, EvaluatorArgs(quadRule, iqn))
            /\ ans' = (IF op \in QuadratureOps THEN ans
                       ELSE Accumulate(ans, EvaluatorArgs(quadRule, iqn)))
            /\ iqn' = iqn + 1
            /\ pc' = pc
       ELSE /\ pc' = (IF op \in QuadratureOps THEN "returned" ELSE "integrate_return")
            /\ UNCHANGED <<calls, ans, iqn>>
  /\ UNCHANGED <<op, hybridCore, f, iT, iF, interpLocals, quadRule, value,
                 i, j, basisVars, gramVars, evalVars>>

\* hybridcore.hpp:329, 338  return ans;  hybridcore.hpp:345  value += integrate_over_cell(iT, f)
IntegrateReturn ==
  /\ op \in IntegrateOps \cup {DomainOp}
  /\ pc = "integrate_return"
  /\ IF op = DomainOp
       THEN /\ value' = value + ans
            /\ iT' = iT + 1
            /\ pc' = "domain_for"
       ELSE /\ pc' = "returned"
            /\ UNCHANGED <<value, iT>>
  /\ UNCHANGED <<op, hybridCore, f, iF, interpLocals, quadRule, iqn, calls, ans,
                 i, j, basisVars, gramVars, evalVars>>

NextQuad ==
  \/ DomainEnter
  \/ DomainLoop
  \/ IntegrateEnter
  \/ QuadEnter
  \/ QuadLoop
  \/ IntegrateReturn

SpecQuad == InitQuad /\ [][NextQuad]_vars

(***************************************************************************)
(* Properties of quadrature_over_* and integrate_over_*                    *)
(***************************************************************************)
\* the rule of the entity the running call works on
RuleOfEntity ==
  IF OverFace
    THEN generate_quadrature_rule(FaceCenter(iF), FaceNodes(2 * K + 2))
    ELSE generate_quadrature_rule(CellCenter(iT), CellNodes(2 * Ldeg + 2))

\* sum over the first n nodes of a rule of weight * f(point)
RECURSIVE RuleSum(_, _)
RuleSum(rule, n) ==
  IF n = 0 THEN 0
  ELSE RuleSum(rule, n - 1)
         + rule[n].w * (f.c0 + f.cx * rule[n].x)

\* sum over the first n cells of the integral over the cell
RECURSIVE CellsSum(_)
CellsSum(n) ==
  IF n = 0 THEN 0
  ELSE CellsSum(n - 1)
         + RuleSum(generate_quadrature_rule(CellCenter(n - 1), CellNodes(2 * Ldeg + 2)),
                   Len(CellNodes(2 * Ldeg + 2)))

InQuadrature == pc \in {"quad_for", "integrate_return"}

QuadratureOver ==
  \/ pc = "integrate_return"
  \/ pc = "returned" /\ op # DomainOp

\* C17: quadrature_over_cell and quadrature_over_face call the evaluator
\* exactly once per node of the entity's rule, in increasing node index, with
\* that node's index, point and weight, and then stop; integrate_over_cell and
\* integrate_over_face return the sum of weight * f(point) over those nodes;
\* integrate_over_domain returns the sum of the cell integrals over all cells.
QuadratureVisitsEachNodeOnce ==
  op \in QuadOps =>
    /\ (InQuadrature \/ QuadratureOver) =>
         /\ Len(calls) = iqn
         /\ iqn <= Len(RuleOfEntity)
         /\ \A n \in 1..Len(calls) :
              /\ calls[n].iqn = n - 1
              /\ calls[n].x = RuleOfEntity[n].x
              /\ calls[n].y = RuleOfEntity[n].y
              /\ calls[n].z = RuleOfEntity[n].z
              /\ calls[n].w = RuleOfEntity[n].w
    /\ QuadratureOver => Len(calls) = Len(RuleOfEntity)
    /\ (QuadratureOver /\ op \notin QuadratureOps) =>
         ans = RuleSum(RuleOfEntity, Len(RuleOfEntity))
    /\ (op = DomainOp /\ pc \in {"domain_for", "returned"}) => value = CellsSum(iT)
    /\ (op = DomainOp /\ pc = "returned") =>
         (iT = mesh.n_cells /\ value = CellsSum(mesh.n_cells))

\* the integral over a domain of two cells, each contributing
QuadratureVisitsEachNodeOnceWitness ==
  /\ op = DomainOp
  /\ pc = "returned"
  /\ mesh.n_cells = 2
  /\ ans # 0
  /\ Len(calls) = 4
  /\ calls[4].iqn = 3
  /\ value # 0
  /\ value # ans

====
